---- MODULE Spec2Model ----
(***************************************************************************)
(* Model of ingest_v2.py: the log-line classifier (parse_log_file), the    *)
(* per-file accumulator (LogMetrics), the reducer (compute_metrics), role  *)
(* inference (infer_role) and the file loop of main.                       *)
(*                                                                         *)
(* Text.  A log line is a sequence of tokens.  A token is one character    *)
(* ("|", "=", ";", " ", ".", "-", a digit, a letter) or an atom standing   *)
(* for a fixed run of characters none of which is a separator, a digit or  *)
(* white space at its ends: the literals "LOADING_TIME", "AGGREGATE_" and  *)
(* "Perf: FPS" of the three regular expressions, and label words such as   *)
(* "Session".  The atom Huge stands for a run of 400 digits "9", a decimal *)
(* numeral beyond the range of an IEEE-754 double.  File names are         *)
(* sequences of single characters.                                         *)
(*                                                                         *)
(* Numbers.  A float is an exact rational <<n, d>> in lowest terms with    *)
(* d > 0; <<1, 0>> is +inf, the value float() gives a numeral that         *)
(* overflows.  Rounding of finite doubles is not modelled.                 *)
(***************************************************************************)
EXTENDS Integers, Sequences, FiniteSets, TLC

\* Bounds of the model.
MaxLines == 3
MaxRunLines == 3
MaxFiles == 2

VARIABLES
    dir,                 \* the input directory: entry name -> is it a regular file
    rolemap,             \* result of read_rolemap; the empty function is None
    pc,                  \* position of main: "start", "loop", "parse", "done"
                         \* (and "role", "role_done" around a call of infer_role)
    todo,                \* the entries of sorted(os.listdir) not yet visited
    content,             \* history: <<fname, lines read>> of every file opened so far
    eof,                 \* the file iterator of the open file is exhausted
    metrics,             \* the LogMetrics of the file being parsed
    last,                \* the line the last step read, with the accumulator before it
    events,              \* events.jsonl: the records written so far
    aggregated_metrics,  \* list of <<fname, per_file_metrics>>
    rows,                \* metrics.csv: the data rows written
    roleArg,             \* argument of the infer_role call under test
    roleRes              \* its result

vars == <<dir, rolemap, pc, todo, content, eof, metrics, last, events,
          aggregated_metrics, rows, roleArg, roleRes>>

----------------------------------------------------------------------------
\* Generic helpers

Min(a, b) == IF a <= b THEN a ELSE b

Abs(x) == IF x < 0 THEN -x ELSE x

RECURSIVE Gcd(_, _)
Gcd(a, b) == IF b = 0 THEN a ELSE Gcd(b, a % b)

RECURSIVE Pow10(_)
Pow10(k) == IF k = 0 THEN 1 ELSE 10 * Pow10(k - 1)

\* Index of the first element of s at or after p that satisfies Test, or 0.
FirstAt(s, p, Test(_)) ==
    IF \E i \in p..Len(s) : Test(s[i])
    THEN CHOOSE i \in p..Len(s) : Test(s[i]) /\ \A j \in p..(i - 1) : ~Test(s[j])
    ELSE 0

----------------------------------------------------------------------------
\* Floats as exact rationals

\* The rational n/d in lowest terms (d >= 0); d = 0 gives an infinity.
Q(n, d) ==
    IF d = 0
    THEN <<(IF n > 0 THEN 1 ELSE IF n < 0 THEN -1 ELSE 0), 0>>
    ELSE LET g == Gcd(Abs(n), d) IN <<n \div g, d \div g>>

Zero == <<0, 1>>
Inf == <<1, 0>>

IsFinite(a) == a[2] # 0

QLess(a, b) == a[1] * b[2] < b[1] * a[2]

QAdd(a, b) ==
    IF a[2] = 0 THEN a
    ELSE IF b[2] = 0 THEN b
    ELSE Q(a[1] * b[2] + b[1] * a[2], a[2] * b[2])

QHalf(a) == IF a[2] = 0 THEN a ELSE Q(a[1], 2 * a[2])

\* x / y for y > 0 (y may be +inf, and then the quotient is 0.0).
QDiv(x, y) == Q(x[1] * y[2], x[2] * y[1])

\* Python's round() of the non-negative rational n/d: to nearest, ties to even.
RoundHalfUp(n, d) == (2 * n + d) \div (2 * d)

RoundHalfEven(n, d) ==
    LET q == n \div d
        r == n % d
    IN  IF 2 * r < d THEN q
        ELSE IF 2 * r > d THEN q + 1
        ELSE IF q % 2 = 0 THEN q ELSE q + 1

\* sorted(): ascending insertion sort.
RECURSIVE Insert(_, _)
Insert(x, s) ==
    IF s = <<>> THEN <<x>>
    ELSE IF QLess(x, Head(s)) THEN <<x>> \o s
    ELSE <<Head(s)>> \o Insert(x, Tail(s))

RECURSIVE sorted(_)
sorted(s) == IF s = <<>> THEN <<>> ELSE Insert(s[Len(s)], sorted(SubSeq(s, 1, Len(s) - 1)))

----------------------------------------------------------------------------
\* Text

NL == "\n"
Huge == "9{400}"
DigitSeq == <<"0", "1", "2", "3", "4", "5", "6", "7", "8", "9">>
Digits == {DigitSeq[i] : i \in 1..10}

\* [0-9]
IsDigit(t) == t \in Digits \cup {Huge}

DigitVal(t) == (CHOOSE i \in 1..10 : DigitSeq[i] = t) - 1

IsSpace(t) == t = " "

\* str.strip()
RECURSIVE LStrip(_)
LStrip(s) == IF s # <<>> /\ IsSpace(Head(s)) THEN LStrip(Tail(s)) ELSE s

RECURSIVE RStrip(_)
RStrip(s) ==
    IF s # <<>> /\ IsSpace(s[Len(s)]) THEN RStrip(SubSeq(s, 1, Len(s) - 1)) ELSE s

Strip(s) == LStrip(RStrip(s))

\* A plausible slip: the line terminator is kept.
RStripNL_Keep(s) == s

\* str.rstrip("\n")
RECURSIVE RStripNL(_)
RStripNL(s) ==
    IF s # <<>> /\ s[Len(s)] = NL THEN RStripNL(SubSeq(s, 1, Len(s) - 1)) ELSE s

\* str.split(sep)
RECURSIVE Split(_, _)
Split(s, sep) ==
    LET IsSep(t) == t = sep
        i == FirstAt(s, 1, IsSep)
    IN  IF i = 0 THEN <<s>>
        ELSE <<SubSeq(s, 1, i - 1)>> \o Split(SubSeq(s, i + 1, Len(s)), sep)

\* Value of a run of decimal digits (no Huge among them).
RECURSIVE DigitsVal(_)
DigitsVal(ds) ==
    IF ds = <<>> THEN 0 ELSE 10 * DigitsVal(SubSeq(ds, 1, Len(ds) - 1)) + DigitVal(ds[Len(ds)])

\* float(s) raises ValueError unless s, stripped, is [+-]? digits [. digits?]
\* or [+-]? . digits (the tokens of the model spell no exponent, inf or nan).
FloatOk(s) ==
    LET t == Strip(s)
        u == IF t # <<>> /\ t[1] \in {"-", "+"} THEN Tail(t) ELSE t
        dots == {i \in 1..Len(u) : u[i] = "."}
    IN  /\ \A i \in 1..Len(u) : IsDigit(u[i]) \/ u[i] = "."
        /\ Cardinality(dots) <= 1
        /\ \E i \in 1..Len(u) : IsDigit(u[i])

\* float(s) where FloatOk(s).  An integer part holding Huge overflows to inf;
\* a fraction is cut before Huge and rounded up in its last place.
float(s) ==
    LET t == Strip(s)
        neg == t[1] = "-"
        u == IF t[1] \in {"-", "+"} THEN Tail(t) ELSE t
        IsDot(c) == c = "."
        IsHuge(c) == c = Huge
        dot == FirstAt(u, 1, IsDot)
        int == IF dot = 0 THEN u ELSE SubSeq(u, 1, dot - 1)
        frac0 == IF dot = 0 THEN <<>> ELSE SubSeq(u, dot + 1, Len(u))
        h == FirstAt(frac0, 1, IsHuge)
        frac == IF h = 0 THEN frac0 ELSE SubSeq(frac0, 1, h - 1)
        up == IF h = 0 THEN 0 ELSE 1
        sign == IF neg THEN -1 ELSE 1
    IN  IF \E i \in 1..Len(int) : int[i] = Huge
        THEN (IF neg THEN Q(-1, 0) ELSE Inf)
        ELSE Q(sign * (DigitsVal(int) * Pow10(Len(frac)) + DigitsVal(frac) + up),
               Pow10(Len(frac)))

\* The index of the last token of the run of digits that starts at p (p - 1 if none).
RECURSIVE DigitRunEnd(_, _)
DigitRunEnd(s, p) ==
    IF p <= Len(s) /\ IsDigit(s[p]) THEN DigitRunEnd(s, p + 1) ELSE p - 1

\* The text [0-9]+(?:\.[0-9]+)? matches at position p of s, or <<>> if it does not.
NumberAt(s, p) ==
    LET e == DigitRunEnd(s, p)
        f == DigitRunEnd(s, e + 2)
    IN  IF e < p THEN <<>>
        ELSE IF e + 2 <= Len(s) /\ s[e + 1] = "." /\ f >= e + 2 THEN SubSeq(s, p, f)
        ELSE SubSeq(s, p, e)

----------------------------------------------------------------------------
\* dict: a sequence of <<key, value>> pairs in insertion order, keys distinct

DictHas(d, k) == \E i \in 1..Len(d) : d[i][1] = k

DictGet(d, k) == d[CHOOSE i \in 1..Len(d) : d[i][1] = k][2]

\* d[k] = v: a present key keeps its place.
DictSet(d, k, v) ==
    IF DictHas(d, k)
    THEN [i \in 1..Len(d) |-> IF d[i][1] = k THEN <<k, v>> ELSE d[i]]
    ELSE Append(d, <<k, v>>)

DictKeys(d) == {d[i][1] : i \in 1..Len(d)}

----------------------------------------------------------------------------
\* LogMetrics

NewLogMetrics == [loading_times |-> <<>>, aggregate_samples |-> <<>>, frametimes |-> <<>>]

\* A plausible slip: the first value observed for a label is kept.
record_loading_time_FirstWins(m, label, value) ==
    IF DictHas(m.loading_times, label) THEN m
    ELSE [m EXCEPT !.loading_times = Append(@, <<label, value>>)]

record_loading_time(m, label, value) ==
    [m EXCEPT !.loading_times = DictSet(@, label, value)]

\* aggregate_samples.setdefault(label, []).append(val) for the pairs of zip(legend, values)
\* from position i on.
RECURSIVE ZipAppend(_, _, _, _)
ZipAppend(samples, legend, values, i) ==
    IF i > Min(Len(legend), Len(values)) THEN samples
    ELSE LET label == legend[i]
             old == IF DictHas(samples, label) THEN DictGet(samples, label) ELSE <<>>
         IN  ZipAppend(DictSet(samples, label, Append(old, values[i])), legend, values, i + 1)

record_aggregate(m, legend, values) ==
    [m EXCEPT !.aggregate_samples = ZipAppend(@, legend, values, 1)]

\* A plausible slip: the guard admits fps = 0 (kept total: 1000/0 as +inf).
record_fps_NoGuard(m, fps) ==
    IF fps[1] >= 0 THEN [m EXCEPT !.frametimes = Append(@, QDiv(Q(1000, 1), fps))] ELSE m

record_fps(m, fps) ==
    IF QLess(Zero, fps)
    THEN [m EXCEPT !.frametimes = Append(@, QDiv(Q(1000, 1), fps))]
    ELSE m

----------------------------------------------------------------------------
\* parse_log_file: the three regular expressions

IsLoadingSep(t) == t \in {"=", "|"}

IsBar(t) == t = "|"

\* loading_re.match(raw): [matched, label text, number text].
\* ^LOADING_TIME\|([^=|]+)[=|]([0-9]+(?:\.[0-9]+)?)
loading_re(raw) ==
    LET i == FirstAt(raw, 3, IsLoadingSep)
        num == NumberAt(raw, i + 1)
    IN  IF /\ Len(raw) >= 2
           /\ raw[1] = "LOADING_TIME"
           /\ raw[2] = "|"
           /\ i >= 4
           /\ num # <<>>
        THEN [ok |-> TRUE, g1 |-> SubSeq(raw, 3, i - 1), g2 |-> num]
        ELSE [ok |-> FALSE, g1 |-> <<>>, g2 |-> <<>>]

\* aggregate_re.match(raw): [matched, legend text, values text].
\* ^AGGREGATE_([^|]+)\|([^|]*)\|(.+)
aggregate_re(raw) ==
    LET i == FirstAt(raw, 2, IsBar)
        j == IF i = 0 THEN 0 ELSE FirstAt(raw, i + 1, IsBar)
    IN  IF /\ Len(raw) >= 1
           /\ raw[1] = "AGGREGATE_"
           /\ i >= 3
           /\ j > i
           /\ j < Len(raw)
        THEN [ok |-> TRUE, g2 |-> SubSeq(raw, i + 1, j - 1), g3 |-> SubSeq(raw, j + 1, Len(raw))]
        ELSE [ok |-> FALSE, g2 |-> <<>>, g3 |-> <<>>]

\* fps_re.search(raw): [matched, number text], the leftmost match.
\* Perf: FPS=([0-9]+(?:\.[0-9]+)?)
fps_re(raw) ==
    LET At(i) == /\ raw[i] = "Perf: FPS"
                 /\ raw[i + 1] = "="
                 /\ IsDigit(raw[i + 2])
        hits == {i \in 1..(Len(raw) - 2) : At(i)}
    IN  IF hits # {}
        THEN [ok |-> TRUE,
              g1 |-> NumberAt(raw, 2 + CHOOSE i \in hits : \A j \in hits : i <= j)]
        ELSE [ok |-> FALSE, g1 |-> <<>>]

\* try: float(text) except ValueError: 0.0
FloatOrZero(text) == IF FloatOk(text) THEN float(text) ELSE Zero

\* legend = [s.strip() for s in legend_str.split(";") if s.strip()]
RECURSIVE StripNonEmpty(_)
StripNonEmpty(parts) ==
    IF parts = <<>> THEN <<>>
    ELSE (IF Strip(Head(parts)) # <<>> THEN <<Strip(Head(parts))>> ELSE <<>>)
         \o StripNonEmpty(Tail(parts))

ParseLegend(legend_str) == StripNonEmpty(Split(legend_str, ";"))

\* A plausible slip: an empty token is not skipped, float("") fails, 0.0 is appended.
RECURSIVE ParseValueTokens_KeepEmpty(_)
ParseValueTokens_KeepEmpty(parts) ==
    IF parts = <<>> THEN <<>>
    ELSE <<FloatOrZero(Head(parts))>> \o ParseValueTokens_KeepEmpty(Tail(parts))

\* The loop over values_str.split(";"): an empty token is skipped, any other token
\* gives float(token), or 0.0 on ValueError.
RECURSIVE ParseValueTokens(_)
ParseValueTokens(parts) ==
    IF parts = <<>> THEN <<>>
    ELSE (IF Strip(Head(parts)) = <<>> THEN <<>> ELSE <<FloatOrZero(Strip(Head(parts)))>>)
         \o ParseValueTokens(Tail(parts))

ParseValues(values_str) == ParseValueTokens(Split(values_str, ";"))

\* The loading-time branch of the line loop: record, write the event, continue.
LoadingBranch(m, raw, lm) ==
    LET label == Strip(lm.g1)
        value == FloatOrZero(lm.g2)
    IN  [metrics |-> record_loading_time(m, label, value),
         event |-> [raw |-> raw,
                    kv |-> [type |-> "loading_time", label |-> label, value |-> value]]]

\* The line loop after the loading-time test: aggregate, then FPS, then no kv.
ParseRest(m, raw) ==
    LET am == aggregate_re(raw)
        fm == fps_re(raw)
    IN  IF am.ok
        THEN LET legend == ParseLegend(am.g2)
                 vals == ParseValues(am.g3)
             IN  [metrics |-> record_aggregate(m, legend, vals),
                  event |-> [raw |-> raw,
                             kv |-> [type |-> "aggregate", legend |-> legend,
                                     values |-> vals]]]
        ELSE IF fm.ok
        THEN IF FloatOk(fm.g1)
             THEN [metrics |-> record_fps(m, float(fm.g1)),
                   event |-> [raw |-> raw, kv |-> [type |-> "fps", fps |-> float(fm.g1)]]]
             ELSE [metrics |-> m, event |-> [raw |-> raw]]
        ELSE [metrics |-> m, event |-> [raw |-> raw]]

\* A plausible slip: no "continue" after the loading-time branch, so the line goes on
\* to the later tests and a later match replaces the payload.
ParseLine_FallThrough(m, line) ==
    LET raw == RStripNL(line)
        lm == loading_re(raw)
        lb == LoadingBranch(m, raw, lm)
        rest == ParseRest(lb.metrics, raw)
    IN  IF lm.ok
        THEN [metrics |-> rest.metrics,
              event |-> IF "kv" \in DOMAIN rest.event THEN rest.event ELSE lb.event]
        ELSE ParseRest(m, raw)

\* The body of "for line in fh" for one line of the file: the accumulator after it
\* and the event record written.
ParseLine(m, line) ==
    LET raw == RStripNL(line)
        lm == loading_re(raw)
    IN  IF lm.ok THEN LoadingBranch(m, raw, lm) ELSE ParseRest(m, raw)

----------------------------------------------------------------------------
\* compute_metrics

\* f"loading_time_{label}_ms"
LoadingId(label) == <<"loading_time_">> \o label \o <<"_ms">>

\* f"aggregate_median_{label}"
MedianId(label) == <<"aggregate_median_">> \o label

P50Id == <<"frametime_p50_ms">>
P95Id == <<"frametime_p95_ms">>

\* A plausible slip: the upper middle value of an even count.
median_Upper(vals) ==
    IF vals = <<>> THEN Zero ELSE sorted(vals)[(Len(vals) \div 2) + 1]

\* statistics.median, 0.0 on StatisticsError (no data)
median(vals) ==
    LET data == sorted(vals)
        n == Len(data)
    IN  IF n = 0 THEN Zero
        ELSE IF n % 2 = 1 THEN data[(n \div 2) + 1]
        ELSE QHalf(QAdd(data[n \div 2], data[(n \div 2) + 1]))

\* A plausible slip: round half up instead of Python's round.
percentile_HalfUp(data, pct) ==
    IF data = <<>> THEN Zero ELSE data[RoundHalfUp((Len(data) - 1) * pct, 100) + 1]

\* percentile(data, pct/100): data[int(round((len(data) - 1) * pct))]
percentile(data, pct) ==
    IF data = <<>> THEN Zero ELSE data[RoundHalfEven((Len(data) - 1) * pct, 100) + 1]

RECURSIVE AddLoading(_, _, _)
AddLoading(result, lt, i) ==
    IF i > Len(lt) THEN result
    ELSE AddLoading(DictSet(result, LoadingId(lt[i][1]), lt[i][2]), lt, i + 1)

RECURSIVE AddMedians(_, _, _)
AddMedians(result, as, i) ==
    IF i > Len(as) THEN result
    ELSE IF as[i][2] = <<>> THEN AddMedians(result, as, i + 1)
    ELSE AddMedians(DictSet(result, MedianId(as[i][1]), median(as[i][2])), as, i + 1)

AddPercentiles(result, frametimes) ==
    IF frametimes # <<>>
    THEN LET sorted_frames == sorted(frametimes)
         IN  DictSet(DictSet(result, P50Id, percentile(sorted_frames, 50)),
                     P95Id, percentile(sorted_frames, 95))
    ELSE result

compute_metrics(m) ==
    AddPercentiles(AddMedians(AddLoading(<<>>, m.loading_times, 1), m.aggregate_samples, 1),
                   m.frametimes)

----------------------------------------------------------------------------
\* File names and infer_role

\* The characters of file names: their code points
UpperSeq ==
    <<"A", "B", "C", "D", "E", "F", "G", "H", "I", "J", "K", "L", "M", "N", "O", "P", "Q", "R", "S", "T", "U", "V", "W", "X", "Y", "Z">>
LowerSeq ==
    <<"a", "b", "c", "d", "e", "f", "g", "h", "i", "j", "k", "l", "m", "n", "o", "p", "q", "r", "s", "t", "u", "v", "w", "x", "y", "z">>
PunctSeq == <<"-", ".", "/">>

IndexIn(s, c) == CHOOSE i \in 1..Len(s) : s[i] = c

IsUpper(c) == \E i \in 1..Len(UpperSeq) : UpperSeq[i] = c

Ord(c) ==
    IF IsUpper(c) THEN 64 + IndexIn(UpperSeq, c)
    ELSE IF \E i \in 1..Len(LowerSeq) : LowerSeq[i] = c THEN 96 + IndexIn(LowerSeq, c)
    ELSE IF IsDigit(c) THEN 48 + DigitVal(c)
    ELSE IF c = "_" THEN 95
    ELSE 44 + IndexIn(PunctSeq, c)

\* str.lower() of one character
LowerChar(c) == IF IsUpper(c) THEN LowerSeq[IndexIn(UpperSeq, c)] ELSE c

Lower(s) == [i \in 1..Len(s) |-> LowerChar(s[i])]

\* sub in s
Contains(s, sub) ==
    \E i \in 1..(Len(s) - Len(sub) + 1) : SubSeq(s, i, i + Len(sub) - 1) = sub

\* a < b for strings: by code points, a proper prefix first
StrLess(a, b) ==
    \E i \in 1..(Min(Len(a), Len(b)) + 1) :
        /\ \A j \in 1..(i - 1) : a[j] = b[j]
        /\ \/ i > Len(a) /\ i <= Len(b)
           \/ i <= Len(a) /\ i <= Len(b) /\ Ord(a[i]) < Ord(b[i])

\* sorted(os.listdir(indir)), the listing given as a set of names
RECURSIVE SortedNames(_)
SortedNames(S) ==
    IF S = {} THEN <<>>
    ELSE LET x == CHOOSE x \in S : \A y \in S \ {x} : StrLess(x, y)
         IN  <<x>> \o SortedNames(S \ {x})

\* os.path.basename
basename(path) ==
    LET slashes == {i \in 1..Len(path) : path[i] = "/"}
    IN  IF slashes = {} THEN path
        ELSE SubSeq(path, 1 + (CHOOSE i \in slashes : \A j \in slashes : j <= i), Len(path))

client == <<"c", "l", "i", "e", "n", "t">>
server == <<"s", "e", "r", "v", "e", "r">>
dedicated == <<"d", "e", "d", "i", "c", "a", "t", "e", "d">>

\* A plausible slip: the server test comes first and does not exclude "client".
infer_role_ServerFirst(filename, rm) ==
    LET base == basename(filename)
        lower == Lower(base)
    IN  IF DOMAIN rm # {} /\ base \in DOMAIN rm THEN rm[base]
        ELSE IF Contains(lower, server) THEN "server"
        ELSE IF Contains(lower, client) THEN "client"
        ELSE IF Contains(lower, dedicated) THEN "dedicated"
        ELSE "unknown"

infer_role(filename, rm) ==
    LET base == basename(filename)
        lower == Lower(base)
    IN  IF DOMAIN rm # {} /\ base \in DOMAIN rm THEN rm[base]
        ELSE IF Contains(lower, client) THEN "client"
        ELSE IF Contains(lower, server) /\ ~Contains(lower, client) THEN "server"
        ELSE IF Contains(lower, dedicated) THEN "dedicated"
        ELSE "unknown"

\* f"{value:.3f}": thousandths, to nearest, ties to even; "inf" for an infinity
Format3(v) ==
    IF v[2] = 0 THEN <<"inf">>
    ELSE <<(IF v[1] < 0 THEN -1 ELSE 1) * RoundHalfEven(Abs(v[1]) * 1000, v[2])>>

----------------------------------------------------------------------------
\* The inputs of the model: log lines, file names, role maps

\* LOADING_TIME|Session=12.5
L_Session12_5 == <<"LOADING_TIME", "|", "Session", "=", "1", "2", ".", "5">>
\* LOADING_TIME|Session=20
L_Session20 == <<"LOADING_TIME", "|", "Session", "=", "2", "0">>
\* LOADING_TIME| Menu |7
L_MenuBar7 == <<"LOADING_TIME", "|", " ", "Menu", " ", "|", "7">>
\* LOADING_TIME|Session=abc
L_SessionBad == <<"LOADING_TIME", "|", "Session", "=", "a", "b", "c">>
\* LOADING_TIME|Perf: FPS=50
L_PerfLabel == <<"LOADING_TIME", "|", "Perf: FPS", "=", "5", "0">>
\* AGGREGATE_X|GPUTime;RenderThread|5.0;7.0
A_5_7 == <<"AGGREGATE_", "X", "|", "GPUTime", ";", "RenderThread", "|", "5", ".", "0", ";", "7", ".", "0">>
\* AGGREGATE_X|GPUTime;;RenderThread;Menu|3.5;;9
A_Gaps == <<"AGGREGATE_", "X", "|", "GPUTime", ";", ";", "RenderThread", ";", "Menu", "|", "3", ".", "5", ";", ";", "9">>
\* AGGREGATE_X|GPUTime;GPUTime|-3; x Perf: FPS=50;8
A_BadTok == <<"AGGREGATE_", "X", "|", "GPUTime", ";", "GPUTime", "|", "-", "3", ";", " ", "x", " ", "Perf: FPS", "=", "5", "0", ";", "8">>
\* Perf: FPS=100
F_100 == <<"Perf: FPS", "=", "1", "0", "0">>
\* t Perf: FPS=x Perf: FPS=50.0
F_Mid50 == <<"t", " ", "Perf: FPS", "=", "x", " ", "Perf: FPS", "=", "5", "0", ".", "0">>
\* Perf: FPS=0
F_0 == <<"Perf: FPS", "=", "0">>
\* Perf: FPS=-5
F_Neg == <<"Perf: FPS", "=", "-", "5">>
\* Perf: FPS=9{400}   (400 digits)
F_Huge == <<"Perf: FPS", "=", "9{400}">>
\* (the empty line)
U_Empty == <<>>

Lines ==
    {L_Session12_5, L_Session20, L_MenuBar7, L_SessionBad, L_PerfLabel,
     A_5_7, A_Gaps, A_BadTok, F_100, F_Mid50,
     F_0, F_Neg, F_Huge, U_Empty}

RunLines == {L_Session12_5, A_5_7, F_100, F_Neg}

\* ClientLog.txt
N_ClientLog == <<"C", "l", "i", "e", "n", "t", "L", "o", "g", ".", "t", "x", "t">>
\* ServerClient.log
N_ServerClient == <<"S", "e", "r", "v", "e", "r", "C", "l", "i", "e", "n", "t", ".", "l", "o", "g">>
\* Dedicated01.log
N_Dedicated01 == <<"D", "e", "d", "i", "c", "a", "t", "e", "d", "0", "1", ".", "l", "o", "g">>
\* foo.log
N_Foo == <<"f", "o", "o", ".", "l", "o", "g">>
\* SERVER.LOG
N_SERVER == <<"S", "E", "R", "V", "E", "R", ".", "L", "O", "G">>
\* logs/server_1.log
N_PathServer == <<"l", "o", "g", "s", "/", "s", "e", "r", "v", "e", "r", "_", "1", ".", "l", "o", "g">>
\* client/out.log
N_ClientDir == <<"c", "l", "i", "e", "n", "t", "/", "o", "u", "t", ".", "l", "o", "g">>
\* DedicatedServer.log
N_DedicatedServer == <<"D", "e", "d", "i", "c", "a", "t", "e", "d", "S", "e", "r", "v", "e", "r", ".", "l", "o", "g">>
\* cli_ent.log
N_Cli_ent == <<"c", "l", "i", "_", "e", "n", "t", ".", "l", "o", "g">>
\* Client.log
N_Client == <<"C", "l", "i", "e", "n", "t", ".", "l", "o", "g">>
\* a.log
N_A == <<"a", ".", "l", "o", "g">>
\* server.log
N_Server == <<"s", "e", "r", "v", "e", "r", ".", "l", "o", "g">>
\* Archive
N_Arch == <<"A", "r", "c", "h", "i", "v", "e">>
\* out.log
N_Out == <<"o", "u", "t", ".", "l", "o", "g">>

RoleNames ==
    {N_ClientLog, N_ServerClient, N_Dedicated01, N_Foo, N_SERVER, N_PathServer,
     N_ClientDir, N_DedicatedServer, N_Cli_ent}

RunNames == {N_Client, N_A, N_Server}

\* None (the empty function) and the maps read_rolemap can return over two keys.
RoleMaps ==
    UNION {[K -> {"server", "dedicated", "qa"}] : K \in SUBSET {N_Foo, N_ClientLog, N_Out}}

\* args.machine, args.build, args.origin
args == [machine |-> "pc-01", build |-> "1.0.2", origin |-> "manual"]

----------------------------------------------------------------------------
\* main

NoLine == [read |-> FALSE, line |-> <<>>, before |-> NewLogMetrics]

ListDir ==
    /\ pc = "start"
    /\ todo' = SortedNames(DOMAIN dir)
    /\ pc' = "loop"
    /\ UNCHANGED <<dir, rolemap, content, eof, metrics, last, events, aggregated_metrics,
                   rows, roleArg, roleRes>>

\* if not os.path.isfile(path): continue
SkipEntry ==
    /\ pc = "loop"
    /\ todo # <<>>
    /\ ~dir[Head(todo)]
    /\ todo' = Tail(todo)
    /\ UNCHANGED <<dir, rolemap, pc, content, eof, metrics, last, events,
                   aggregated_metrics, rows, roleArg, roleRes>>

\* A plausible slip: one LogMetrics is created before the loop and shared by the files.
OpenFile_Shared ==
    /\ pc = "loop"
    /\ todo # <<>>
    /\ dir[Head(todo)]
    /\ content' = Append(content, <<Head(todo), <<>>>>)
    /\ eof' = FALSE
    /\ last' = NoLine
    /\ pc' = "parse"
    /\ UNCHANGED <<dir, rolemap, todo, metrics, events, aggregated_metrics, rows, roleArg,
                   roleRes>>

\* metrics = LogMetrics(); parse_log_file opens the file
OpenFile ==
    /\ pc = "loop"
    /\ todo # <<>>
    /\ dir[Head(todo)]
    /\ metrics' = NewLogMetrics
    /\ content' = Append(content, <<Head(todo), <<>>>>)
    /\ eof' = FALSE
    /\ last' = NoLine
    /\ pc' = "parse"
    /\ UNCHANGED <<dir, rolemap, todo, events, aggregated_metrics, rows, roleArg, roleRes>>

\* One iteration of "for line in fh": the file yields a line of LS, ended by a newline
\* unless it is the last of the file.  At most max lines are read in a run.
ReadLine(LS, max) ==
    /\ pc = "parse"
    /\ ~eof
    /\ Len(events) < max
    /\ \E body \in LS, nl \in BOOLEAN :
        /\ nl \/ body # <<>>
        /\ LET line == IF nl THEN Append(body, NL) ELSE body
               r == ParseLine(metrics, line)
           IN  /\ metrics' = r.metrics
               /\ events' = Append(events, r.event)
               /\ last' = [read |-> TRUE, line |-> body, before |-> metrics]
        /\ content' = [content EXCEPT ![Len(content)][2] = Append(@, body)]
        /\ eof' = ~nl
    /\ UNCHANGED <<dir, rolemap, pc, todo, aggregated_metrics, rows, roleArg, roleRes>>

\* End of file: per_file_metrics = compute_metrics(metrics), appended with fname.
EndFile ==
    /\ pc = "parse"
    /\ aggregated_metrics' = Append(aggregated_metrics, <<Head(todo), compute_metrics(metrics)>>)
    /\ todo' = Tail(todo)
    /\ eof' = FALSE
    /\ pc' = "loop"
    /\ UNCHANGED <<dir, rolemap, content, metrics, last, events, rows, roleArg, roleRes>>

\* The rows of one file of aggregated_metrics.
FileRows(entry, rm) ==
    [i \in 1..Len(entry[2]) |->
        <<args.machine, args.build, args.origin, infer_role(entry[1], rm),
          entry[2][i][1], Format3(entry[2][i][2])>>]

RECURSIVE AllRows(_, _)
AllRows(am, rm) ==
    IF am = <<>> THEN <<>> ELSE FileRows(Head(am), rm) \o AllRows(Tail(am), rm)

\* The loop is over: metrics.csv is written.
WriteCsv ==
    /\ pc = "loop"
    /\ todo = <<>>
    /\ rows' = AllRows(aggregated_metrics, rolemap)
    /\ pc' = "done"
    /\ UNCHANGED <<dir, rolemap, todo, content, eof, metrics, last, events,
                   aggregated_metrics, roleArg, roleRes>>

\* A call of infer_role on its own.
InferRole ==
    /\ pc = "role"
    /\ roleRes' = infer_role(roleArg, rolemap)
    /\ pc' = "role_done"
    /\ UNCHANGED <<dir, rolemap, todo, content, eof, metrics, last, events,
                   aggregated_metrics, rows, roleArg>>

InitRest ==
    /\ todo = <<>>
    /\ content = <<>>
    /\ eof = FALSE
    /\ metrics = NewLogMetrics
    /\ last = NoLine
    /\ events = <<>>
    /\ aggregated_metrics = <<>>
    /\ rows = <<>>
    /\ roleRes = "none"

\* One run over a directory that holds one log file and one subdirectory.
Init ==
    /\ dir = (N_Client :> TRUE) @@ (N_Arch :> FALSE)
    /\ rolemap = <<>>
    /\ pc = "start"
    /\ roleArg = <<>>
    /\ InitRest

Next ==
    \/ ListDir
    \/ SkipEntry
    \/ OpenFile
    \/ ReadLine(Lines, MaxLines)
    \/ EndFile
    \/ WriteCsv

Spec == Init /\ [][Next]_vars

\* One run over a directory of at most MaxFiles entries, files or subdirectories,
\* with or without a role map.
RunInit ==
    /\ dir \in UNION {[K -> BOOLEAN] : K \in {S \in SUBSET RunNames : Cardinality(S) <= MaxFiles}}
    /\ rolemap \in {<<>>, (N_A :> "dedicated")}
    /\ pc = "start"
    /\ roleArg = <<>>
    /\ InitRest

RunNext ==
    \/ ListDir
    \/ SkipEntry
    \/ OpenFile
    \/ ReadLine(RunLines, MaxRunLines)
    \/ EndFile
    \/ WriteCsv

RunSpec == RunInit /\ [][RunNext]_vars

\* infer_role applied to a file name and a role map.
RoleInit ==
    /\ dir = <<>>
    /\ rolemap \in RoleMaps
    /\ pc = "role"
    /\ roleArg \in RoleNames
    /\ InitRest

RoleNext == InferRole

RoleSpec == RoleInit /\ [][RoleNext]_vars

----------------------------------------------------------------------------
\* The claims

\* Number of lines read from the files opened before the i-th.
RECURSIVE LinesBefore(_)
LinesBefore(i) == IF i <= 1 THEN 0 ELSE LinesBefore(i - 1) + Len(content[i - 1][2])

RegularFiles == {n \in DOMAIN dir : dir[n]}

HasKv(e) == "kv" \in DOMAIN e

\* C1: the event stream holds exactly one record per line read, its raw text equal to
\* the line, in the line order of each file, the files in ascending order of their
\* names; the files read are the regular files of the directory, all of them at the end.
C1_RoundTrip ==
    /\ Len(events) = LinesBefore(Len(content) + 1)
    /\ \A i \in 1..Len(content) : \A k \in 1..Len(content[i][2]) :
           events[LinesBefore(i) + k].raw = content[i][2][k]
    /\ \A i, j \in 1..Len(content) : i < j => StrLess(content[i][1], content[j][1])
    /\ \A i \in 1..Len(content) : content[i][1] \in RegularFiles
    /\ pc = "done" => {content[i][1] : i \in 1..Len(content)} = RegularFiles

\* C1 witness: a run over two files, an unclassified and a loading-time line in the
\* first and an aggregate line in the second, has ended with three records.
C1_Witness ==
    /\ pc = "done"
    /\ content = <<<<N_Client, <<F_Neg, L_Session12_5>>>>, <<N_A, <<A_5_7>>>>>>
    /\ Len(events) = 3
    /\ ~HasKv(events[1])
    /\ HasKv(events[2])

\* The accumulator of a file parsed on its own, from a new LogMetrics.
RECURSIVE FreshAccumulator(_)
FreshAccumulator(lines) ==
    IF lines = <<>> THEN NewLogMetrics
    ELSE ParseLine(FreshAccumulator(SubSeq(lines, 1, Len(lines) - 1)), lines[Len(lines)]).metrics

\* Number of metrics of the files of aggregated_metrics before the i-th.
RECURSIVE RowsBefore(_)
RowsBefore(i) == IF i <= 1 THEN 0 ELSE RowsBefore(i - 1) + Len(aggregated_metrics[i - 1][2])

\* Emission rank of a metric identifier: loading times, medians, p50, p95.
EmissionRank(id) ==
    IF id[1] = "loading_time_" THEN 1
    ELSE IF id[1] = "aggregate_median_" THEN 2
    ELSE IF id = P50Id THEN 3
    ELSE 4

\* C9: the report of each file is the reduction of an accumulator that received that
\* file's lines only; reports and rows follow the ascending order of the file names,
\* the rows of a file the emission order of its metrics.
C9_Isolation ==
    /\ \A i \in 1..Len(aggregated_metrics) :
        /\ aggregated_metrics[i][1] = content[i][1]
        /\ aggregated_metrics[i][2] = compute_metrics(FreshAccumulator(content[i][2]))
        /\ \A j, k \in 1..Len(aggregated_metrics[i][2]) :
               j < k => EmissionRank(aggregated_metrics[i][2][j][1])
                            <= EmissionRank(aggregated_metrics[i][2][k][1])
    /\ \A i, j \in 1..Len(aggregated_metrics) :
           i < j => StrLess(aggregated_metrics[i][1], aggregated_metrics[j][1])
    /\ pc = "done" =>
        /\ Len(rows) = RowsBefore(Len(aggregated_metrics) + 1)
        /\ \A i \in 1..Len(aggregated_metrics) : \A j \in 1..Len(aggregated_metrics[i][2]) :
               /\ rows[RowsBefore(i) + j][5] = aggregated_metrics[i][2][j][1]
               /\ rows[RowsBefore(i) + j][4] = infer_role(aggregated_metrics[i][1], rolemap)

\* C9 witness: the first file had a loading time and an FPS line, the second an
\* aggregate line only, and the second report holds the median alone.
C9_Witness ==
    /\ pc = "done"
    /\ content = <<<<N_Client, <<L_Session12_5, F_100>>>>, <<N_Server, <<A_5_7>>>>>>
    /\ Len(aggregated_metrics[1][2]) = 3
    /\ DictKeys(aggregated_metrics[2][2])
         = {MedianId(<<"GPUTime">>), MedianId(<<"RenderThread">>)}
    /\ Len(rows) = 5

----------------------------------------------------------------------------
\* Claims about one file (Spec: the run reads a single file)

\* The MetricReport of the file, once it is reduced.
Reduced == aggregated_metrics # <<>>

Report == aggregated_metrics[1][2]

\* The record written for the last line read.
LastEvent == events[Len(events)]

IsLoadingEv(e) == HasKv(e) /\ e.kv.type = "loading_time"

IsAggregateEv(e) == HasKv(e) /\ e.kv.type = "aggregate"

IsFpsEv(e) == HasKv(e) /\ e.kv.type = "fps"

\* C2: once the file is reduced, every label with a loading-time observation has the
\* metric loading_time_<label>_ms, valued by the last observation of that label, and
\* every loading_time metric belongs to an observed label; LOADING_TIME|Session=12.5
\* followed by LOADING_TIME|Session=20 gives 20.
C2_LastWriteWins ==
    Reduced =>
        /\ \A i \in 1..Len(events) :
            IsLoadingEv(events[i]) =>
                LET same == {j \in 1..Len(events) :
                                IsLoadingEv(events[j]) /\ events[j].kv.label = events[i].kv.label}
                    final == CHOOSE j \in same : \A k \in same : k <= j
                    hits == {k \in 1..Len(Report) : Report[k][1] = LoadingId(events[i].kv.label)}
                IN  /\ Cardinality(hits) = 1
                    /\ \A k \in hits : Report[k][2] = events[final].kv.value
        /\ \A k \in 1..Len(Report) :
            Report[k][1][1] = "loading_time_" =>
                \E i \in 1..Len(events) :
                    IsLoadingEv(events[i]) /\ Report[k][1] = LoadingId(events[i].kv.label)
        /\ content[1][2] = <<L_Session12_5, L_Session20>> =>
               Report = <<<<LoadingId(<<"Session">>), <<20, 1>>>>>>

\* C2 witness: Session was observed at 12.5, another label in between, then Session at
\* 20, and the report gives Session 20.
C2_Witness ==
    /\ Reduced
    /\ content[1][2] = <<L_Session12_5, L_MenuBar7, L_Session20>>
    /\ Report = <<<<LoadingId(<<"Session">>), <<20, 1>>>>, <<LoadingId(<<"Menu">>), <<7, 1>>>>>>

\* The value tokens of an aggregate line, and the positions of those that are not
\* empty once trimmed.
ValueTokens(line) == Split(aggregate_re(line).g3, ";")

NonEmptyTokens(line) == {k \in 1..Len(ValueTokens(line)) : Strip(ValueTokens(line)[k]) # <<>>}

\* C3 as claimed: the values of an aggregate line have one entry per ";"-separated
\* token, an empty token giving 0.0 at its position.
C3_EmptyTokenIsZero ==
    (last.read /\ aggregate_re(last.line).ok) =>
        /\ IsAggregateEv(LastEvent)
        /\ Len(LastEvent.kv.values) = Len(ValueTokens(last.line))
        /\ \A k \in 1..Len(ValueTokens(last.line)) :
               Strip(ValueTokens(last.line)[k]) = <<>> => LastEvent.kv.values[k] = Zero

\* C3, amended: the values of an aggregate line have one entry per token that is not
\* empty once trimmed, in order: the token's number, or 0.0 if it is not a number; an
\* empty token is dropped and later values move up.
C3_EmptyTokenDropped ==
    (last.read /\ aggregate_re(last.line).ok) =>
        /\ IsAggregateEv(LastEvent)
        /\ Len(LastEvent.kv.values) = Cardinality(NonEmptyTokens(last.line))
        /\ \A k \in NonEmptyTokens(last.line) :
               LET pos == Cardinality({j \in NonEmptyTokens(last.line) : j <= k})
                   tok == Strip(ValueTokens(last.line)[k])
               IN  LastEvent.kv.values[pos] = IF FloatOk(tok) THEN float(tok) ELSE Zero

\* C3 witness: the line with values "3.5;;9" was read and its values are 3.5 and 9;
\* the legend GPUTime, RenderThread, Menu pairs them with the first two labels.
C3_Witness ==
    /\ last.read
    /\ last.line = A_Gaps
    /\ LastEvent.kv.values = <<<<7, 2>>, <<9, 1>>>>
    /\ LastEvent.kv.legend = <<<<"GPUTime">>, <<"RenderThread">>, <<"Menu">>>>
    /\ last.before = NewLogMetrics
    /\ metrics.aggregate_samples
         = <<<<<<"GPUTime">>, <<<<7, 2>>>>>>, <<<<"RenderThread">>, <<<<9, 1>>>>>>>>

\* A line LOADING_TIME|<label> followed by "=" or "|" whose value text does not start
\* with a number.
MalformedLoading(line) ==
    LET i == FirstAt(line, 3, IsLoadingSep)
    IN  /\ Len(line) >= 2
        /\ line[1] = "LOADING_TIME"
        /\ line[2] = "|"
        /\ i >= 4
        /\ NumberAt(line, i + 1) = <<>>

LabelOf(line) == Strip(SubSeq(line, 3, FirstAt(line, 3, IsLoadingSep) - 1))

\* C4 as claimed: a loading-time line whose value is not a number is a loading-time
\* observation of value 0.0: its record has a loading_time payload and
\* loading_times[label] is 0.0.
C4_MalformedLoadingIsZero ==
    (last.read /\ MalformedLoading(last.line)) =>
        /\ IsLoadingEv(LastEvent)
        /\ LastEvent.kv.value = Zero
        /\ DictHas(metrics.loading_times, LabelOf(last.line))
        /\ DictGet(metrics.loading_times, LabelOf(last.line)) = Zero

\* C4 witness: LOADING_TIME|Session=abc was read after Session was observed at 12.5:
\* its record has no payload and the loading time of Session is still 12.5.
C4_Witness ==
    /\ last.read
    /\ last.line = L_SessionBad
    /\ MalformedLoading(last.line)
    /\ ~HasKv(LastEvent)
    /\ metrics.loading_times = <<<<<<"Session">>, <<25, 2>>>>>>
    /\ metrics = last.before

\* The positions in the event stream of the frame-rate observations with fps > 0.
PositiveFps == {i \in 1..Len(events) : IsFpsEv(events[i]) /\ QLess(Zero, events[i].kv.fps)}

\* frametimes holds one entry per frame-rate observation with fps > 0, in file order;
\* Entry(ft, fps) says what the entry of an observation is.
OnePerPositiveFps(Entry(_, _)) ==
    /\ Len(metrics.frametimes) = Cardinality(PositiveFps)
    /\ \A i \in PositiveFps :
           Entry(metrics.frametimes[Cardinality({j \in PositiveFps : j <= i})],
                 events[i].kv.fps)
    /\ (last.read /\ ~(Len(events) \in PositiveFps)) =>
           metrics.frametimes = last.before.frametimes
    /\ (last.read /\ last.line = F_0) => (IsFpsEv(LastEvent) /\ LastEvent.kv.fps = Zero)
    /\ (last.read /\ last.line = F_Neg) => ~HasKv(LastEvent)

\* ft = 1000 / fps over the extended reals (1000 / inf = 0)
IsFrameTime(ft, fps) ==
    /\ IsFinite(ft)
    /\ ft[1] * fps[1] = 1000 * ft[2] * fps[2]

\* C5 as claimed: frametimes holds one entry per frame-rate observation with fps > 0, in
\* file order, each 1000/fps; a line with FPS=0 or FPS=-5 adds none; every entry is
\* strictly positive.
C5_AllPositive ==
    /\ OnePerPositiveFps(IsFrameTime)
    /\ \A n \in 1..Len(metrics.frametimes) : QLess(Zero, metrics.frametimes[n])

\* C5, amended: frametimes holds one entry per frame-rate observation with fps > 0, in
\* file order, each 1000/fps; a line with FPS=0 or FPS=-5 adds none; an entry is
\* strictly positive when its fps is finite and 0.0 when the fps numeral overflowed to
\* +inf, so every entry is non-negative.
C5_PositiveUnlessInf ==
    LET Entry(ft, fps) ==
            /\ IsFrameTime(ft, fps)
            /\ IF IsFinite(fps) THEN QLess(Zero, ft) ELSE ft = Zero
    IN  /\ OnePerPositiveFps(Entry)
        /\ \A n \in 1..Len(metrics.frametimes) : ~QLess(metrics.frametimes[n], Zero)

\* C5 witness: FPS=100, FPS=0 and a 400-digit FPS were read; frametimes is 10 and 0.
C5_Witness ==
    /\ content # <<>>
    /\ content[1][2] = <<F_100, F_0, F_Huge>>
    /\ metrics.frametimes = <<<<10, 1>>, Zero>>
    /\ Len(events) = 3

\* v is the element of rank k (from 0) of the values of s in ascending order.
IsKth(s, k, v) ==
    /\ \E i \in 1..Len(s) : s[i] = v
    /\ Cardinality({i \in 1..Len(s) : QLess(s[i], v)}) <= k
    /\ Cardinality({i \in 1..Len(s) : ~QLess(v, s[i])}) > k

\* k is num/den rounded to the nearest integer, a tie going to the even one.
IsNearestEven(k, num, den) ==
    /\ 2 * Abs(k * den - num) <= den
    /\ 2 * Abs(k * den - num) = den => k % 2 = 0

\* C6: once the file is reduced, with n = len(frametimes) > 0 the report gives
\* frametime_p50_ms and frametime_p95_ms as the elements of rank round((n-1)*0.50) and
\* round((n-1)*0.95) of the ascending samples, the ranks within 0..n-1 (round to
\* nearest, ties to even); with n = 0 it gives neither.
C6_Percentiles ==
    Reduced =>
        LET ft == metrics.frametimes
            n == Len(ft)
            Emits(id, pct) ==
                /\ DictHas(Report, id)
                /\ \E k \in 0..(n - 1) :
                       /\ IsNearestEven(k, (n - 1) * pct, 100)
                       /\ IsKth(ft, k, DictGet(Report, id))
                /\ \A k \in 0..(2 * n) :
                       IsNearestEven(k, (n - 1) * pct, 100) => k \in 0..(n - 1)
        IN  IF n = 0
            THEN ~DictHas(Report, P50Id) /\ ~DictHas(Report, P95Id)
            ELSE Emits(P50Id, 50) /\ Emits(P95Id, 95)

\* C6 witness: two samples, 10 and 20 (n even, (n-1)*0.50 = 0.5): p50 is 10, p95 is 20.
C6_Witness ==
    /\ Reduced
    /\ content[1][2] = <<F_Mid50, F_100>>
    /\ metrics.frametimes = <<<<20, 1>>, <<10, 1>>>>
    /\ Report = <<<<P50Id, <<10, 1>>>>, <<P95Id, <<20, 1>>>>>>

\* The values an aggregate record pairs with label L, from position i on.
RECURSIVE PairsOf(_, _, _)
PairsOf(kv, L, i) ==
    IF i > Min(Len(kv.legend), Len(kv.values)) THEN <<>>
    ELSE (IF kv.legend[i] = L THEN <<kv.values[i]>> ELSE <<>>) \o PairsOf(kv, L, i + 1)

\* The values paired with label L by the first n records, in order.
RECURSIVE Paired(_, _)
Paired(L, n) ==
    IF n = 0 THEN <<>>
    ELSE Paired(L, n - 1)
         \o (IF IsAggregateEv(events[n]) THEN PairsOf(events[n].kv, L, 1) ELSE <<>>)

LegendLabels ==
    UNION {{events[n].kv.legend[i] : i \in 1..Len(events[n].kv.legend)} :
           n \in {n \in 1..Len(events) : IsAggregateEv(events[n])}}

\* m is the median of the values of s: the middle one, or the mean of the two middle ones.
IsMedian(s, m) ==
    LET n == Len(s)
    IN  IF n % 2 = 1 THEN IsKth(s, (n - 1) \div 2, m)
        ELSE \E i, j \in 1..n :
                /\ IsKth(s, (n \div 2) - 1, s[i])
                /\ IsKth(s, n \div 2, s[j])
                /\ 2 * m[1] * s[i][2] * s[j][2] = (s[i][1] * s[j][2] + s[j][1] * s[i][2]) * m[2]
                /\ m[2] > 0

\* C7: once the file is reduced, aggregate_median_<L> is in the report exactly for the
\* labels L some value was paired with, and is the median of the values paired with L
\* over the aggregate lines, position by position up to the shorter of legend and
\* values; a label with no paired value has no entry in aggregate_samples.
C7_Median ==
    Reduced =>
        /\ \A L \in LegendLabels :
            LET v == Paired(L, Len(events))
            IN  IF v = <<>>
                THEN /\ ~DictHas(Report, MedianId(L))
                     /\ ~DictHas(metrics.aggregate_samples, L)
                ELSE /\ DictHas(metrics.aggregate_samples, L)
                     /\ DictGet(metrics.aggregate_samples, L) = v
                     /\ Cardinality({k \in 1..Len(Report) : Report[k][1] = MedianId(L)}) = 1
                     /\ IsMedian(v, DictGet(Report, MedianId(L)))
        /\ \A k \in 1..Len(Report) :
            Report[k][1][1] = "aggregate_median_" =>
                /\ Tail(Report[k][1]) \in LegendLabels
                /\ Paired(Tail(Report[k][1]), Len(events)) # <<>>
        /\ DictKeys(metrics.aggregate_samples) \subseteq LegendLabels

\* C7 witness: three aggregate lines paired GPUTime with 5, 3.5, -3, 0 and RenderThread
\* with 7, 9 (Menu and the value 8 had no partner): the medians are 1.75 and 8.
C7_Witness ==
    /\ Reduced
    /\ content[1][2] = <<A_5_7, A_Gaps, A_BadTok>>
    /\ Report = <<<<MedianId(<<"GPUTime">>), <<7, 4>>>>,
                  <<MedianId(<<"RenderThread">>), <<8, 1>>>>>>

\* C10: a line changes at most one component of the accumulator, the one of the first
\* rule it matches (loading time, aggregate, frame rate), and its record carries that
\* rule's payload; a line that matches no rule leaves the accumulator unchanged and
\* has no payload.
C10_FirstMatchWins ==
    last.read =>
        LET lt == metrics.loading_times # last.before.loading_times
            as == metrics.aggregate_samples # last.before.aggregate_samples
            ft == metrics.frametimes # last.before.frametimes
            isL == loading_re(last.line).ok
            isA == ~isL /\ aggregate_re(last.line).ok
            isF == ~isL /\ ~isA /\ fps_re(last.line).ok
        IN  /\ ~(lt /\ as) /\ ~(lt /\ ft) /\ ~(as /\ ft)
            /\ isL => (IsLoadingEv(LastEvent) /\ ~as /\ ~ft)
            /\ isA => (IsAggregateEv(LastEvent) /\ ~lt /\ ~ft)
            /\ isF => (IsFpsEv(LastEvent) /\ ~lt /\ ~as)
            /\ (~isL /\ ~isA /\ ~isF) => (~HasKv(LastEvent) /\ ~lt /\ ~as /\ ~ft)

\* C10 witness: LOADING_TIME|Perf: FPS=50 matches the loading-time rule and holds
\* "Perf: FPS=50"; it set the loading time of "Perf: FPS" and added no frametime.
C10_Witness ==
    /\ last.read
    /\ last.line = L_PerfLabel
    /\ fps_re(last.line).ok
    /\ metrics.loading_times = <<<<<<"Perf: FPS">>, <<50, 1>>>>>>
    /\ metrics.frametimes = <<>>
    /\ last.before = NewLogMetrics

----------------------------------------------------------------------------
\* Claims about infer_role (RoleSpec)

\* The name holds the word w, letter case apart.
HasWord(name, w) ==
    \E i \in 1..(Len(name) - Len(w) + 1) : \A j \in 1..Len(w) : LowerChar(name[i + j - 1]) = w[j]

\* C8: infer_role always answers: the mapped role when the base name is a key of the
\* role map; otherwise client for a name holding "client", server for one holding
\* "server" and not "client", dedicated for one holding "dedicated" and neither, and
\* unknown for the rest, letter case apart.
C8_RolePrecedence ==
    pc = "role_done" =>
        LET base == basename(roleArg)
        IN  /\ roleRes # "none"
            /\ base \in DOMAIN rolemap => roleRes = rolemap[base]
            /\ base \notin DOMAIN rolemap =>
                /\ HasWord(base, client) => roleRes = "client"
                /\ (~HasWord(base, client) /\ HasWord(base, server)) => roleRes = "server"
                /\ (~HasWord(base, client) /\ ~HasWord(base, server)
                        /\ HasWord(base, dedicated)) => roleRes = "dedicated"
                /\ (~HasWord(base, client) /\ ~HasWord(base, server)
                        /\ ~HasWord(base, dedicated)) => roleRes = "unknown"
            /\ rolemap = <<>> =>
                /\ roleArg = N_ClientLog => roleRes = "client"
                /\ roleArg = N_ServerClient => roleRes = "client"
                /\ roleArg = N_Dedicated01 => roleRes = "dedicated"
                /\ roleArg = N_Foo => roleRes = "unknown"
            /\ (roleArg = N_ClientLog /\ N_ClientLog \in DOMAIN rolemap) =>
                   roleRes = rolemap[N_ClientLog]

\* C8 witness: ServerClient.log without a role map is a client.
C8_Witness ==
    /\ pc = "role_done"
    /\ roleArg = N_ServerClient
    /\ rolemap = <<>>
    /\ roleRes = "client"

====
